---- MODULE Spec2Model ----
(***************************************************************************)
(* Model of scripts/check_parens.py: the delimiter balance checker for     *)
(* Clojure sources.  check_file is modelled one loop iteration per step,   *)
(* the Form Namer (read_symbol, describe_top_level_form) as operators      *)
(* over the text, and main as the driver around check_file.                *)
(*                                                                         *)
(* A text is a sequence of one-character strings; idx is the 0-based       *)
(* Python index, so the character under the cursor is text[idx + 1].       *)
(***************************************************************************)
EXTENDS Integers, Sequences, FiniteSets, TLC

VARIABLES
    argv,          \* main: args.paths, the path arguments
    files,         \* main: files returned by gather_files
    missing,       \* main: missing returned by gather_files
    exit_code,     \* main: exit_code
    fi,            \* main: number of files the for loop has taken
    stdout,        \* main: what was printed per file, in order
    stderr,        \* main: the missing paths printed to stderr
    returned,      \* main: <<>> until main returns, then <<return value>>
    pc,            \* control position
    path,          \* check_file: path
    text,          \* check_file: text
    stack,         \* check_file: stack
    errors,        \* check_file: errors
    line,          \* check_file: line
    col,           \* check_file: col
    idx,           \* check_file: idx
    current_form,  \* check_file: current_form
    in_string,     \* check_file: in_string
    escape,        \* check_file: escape
    in_comment     \* check_file: in_comment

mainVars == <<argv, files, missing, exit_code, fi, stdout, stderr, returned>>
scanVars == <<path, text, stack, errors, line, col, idx, current_form,
              in_string, escape, in_comment>>
vars == <<argv, files, missing, exit_code, fi, stdout, stderr, returned, pc,
          path, text, stack, errors, line, col, idx, current_form, in_string,
          escape, in_comment>>

(***************************************************************************)
(* Bounds of the model.                                                    *)
(***************************************************************************)
MaxLen == 4
MaxArgs == 2

(***************************************************************************)
(* Module constants of check_parens.py.                                    *)
(***************************************************************************)
OPENING == ("(" :> ")") @@ ("[" :> "]") @@ ("{" :> "}")

CLOSING ==
    [c \in {OPENING[o] : o \in DOMAIN OPENING} |->
        CHOOSE o \in DOMAIN OPENING : OPENING[o] = c]

SIGNIFICANT_EXTENSIONS == {".clj", ".cljc", ".cljs"}

WHITESPACE == {" ", "\t", "\r", "\n", ","}

DEF_LIKE ==
    {"def", "defonce", "defn", "defmacro", "defmethod", "defmulti",
     "defrecord", "defprotocol", "deftype", "definterface"}

\* The characters read_symbol tests with  ch in '()[]{}"'.
SymbolStop == {"(", ")", "[", "]", "{", "}", "\""}

ParenEntry(ch, ln, cl, form) ==
    [char |-> ch, line |-> ln, col |-> cl, form |-> form]

(***************************************************************************)
(* Python string building: a slice text[a:b] joined into one string, and   *)
(* the f-strings of describe_top_level_form.                               *)
(***************************************************************************)
RECURSIVE Str(_)
Str(s) == IF s = <<>> THEN "" ELSE Head(s) \o Str(Tail(s))

\* text[a:b] for 0 <= a <= b <= len(text)
Slice(t, a, b) == SubSeq(t, a + 1, b)

(***************************************************************************)
(* The Form Namer.                                                         *)
(***************************************************************************)
RECURSIVE skip_comment(_, _)
skip_comment(t, i) ==
    IF i < Len(t) /\ t[i + 1] # "\n" THEN skip_comment(t, i + 1) ELSE i

RECURSIVE skip_space_and_comments(_, _)
skip_space_and_comments(t, i) ==
    IF i < Len(t)
    THEN IF t[i + 1] \in WHITESPACE
         THEN skip_space_and_comments(t, i + 1)
         ELSE IF t[i + 1] = ";"
              THEN skip_space_and_comments(t, skip_comment(t, i))
              ELSE i
    ELSE i

\* Mutant of symbol_end: a semicolon does not end the symbol.
RECURSIVE symbol_end_ThroughSemicolon(_, _)
symbol_end_ThroughSemicolon(t, i) ==
    IF i < Len(t) /\ ~(t[i + 1] \in WHITESPACE \/ t[i + 1] \in SymbolStop)
    THEN symbol_end_ThroughSemicolon(t, i + 1)
    ELSE i

RECURSIVE symbol_end(_, _)
symbol_end(t, i) ==
    IF i < Len(t)
       /\ ~(t[i + 1] \in WHITESPACE \/ t[i + 1] \in SymbolStop)
       /\ t[i + 1] # ";"
    THEN symbol_end(t, i + 1)
    ELSE i

\* Optional[str]: None, or the string held as its characters.
None == [isNone |-> TRUE, val |-> <<>>]
Some(s) == [isNone |-> FALSE, val |-> s]
Falsy(o) == o.isNone \/ o.val = <<>>

read_symbol(t, i) ==
    LET j == skip_space_and_comments(t, i) IN
    IF j >= Len(t)
    THEN <<None, j>>
    ELSE IF t[j + 1] \in SymbolStop
         THEN <<None, j>>
         ELSE LET e == symbol_end(t, j) IN <<Some(Slice(t, j, e)), e>>

\* Mutant of describe_top_level_form: the name after a definition keyword is
\* not read.
describe_top_level_form_NoName(t, i, ln) ==
    LET symbol == read_symbol(t, i)[1] IN
    IF Falsy(symbol)
    THEN "form starting line " \o ToString(ln)
    ELSE Str(symbol.val) \o " form line " \o ToString(ln)

describe_top_level_form(t, i, ln) ==
    LET first == read_symbol(t, i)
        symbol == first[1]
        after_symbol == first[2]
    IN
    IF Falsy(symbol)
    THEN "form starting line " \o ToString(ln)
    ELSE IF (Str(symbol.val) \in DEF_LIKE \/ Str(symbol.val) = "ns")
            /\ ~Falsy(read_symbol(t, after_symbol)[1])
         THEN Str(symbol.val) \o " " \o Str(read_symbol(t, after_symbol)[1].val)
         ELSE Str(symbol.val) \o " form line " \o ToString(ln)

(***************************************************************************)
(* Input texts: every text over Alphabet up to MaxLen characters, the      *)
(* example texts, and a family of top-level forms for the Form Namer.      *)
(***************************************************************************)
Alphabet == {"(", ")", "[", "]", "\"", "\\", ";", "\n", "a"}

BoundedTexts == UNION {[1..n -> Alphabet] : n \in 0..MaxLen}

\* spec example 1: balanced
Example1 ==
    <<"(", "d", "e", "f", "n", " ", "f", " ", "[", "x", "]", " ", "(", "+",
      " ", "x", " ", "1", ")", ")">>

\* spec example 2: openers left unclosed
Example2 ==
    <<"(", "d", "e", "f", "n", " ", "f", " ", "[", "x", " ", "(", "+", " ",
      "x", " ", "1", ")">>

\* spec example 3: one unexpected closer
Example3 ==
    <<"(", "+", " ", "1", " ", "2", ")", "]">>

\* spec example 4: two top-level forms
Example4 ==
    <<"(", "n", "s", " ", "m", "y", ".", "a", "p", "p", ")", " ", "(", "d",
      "e", "f", "r", "e", "c", "o", "r", "d", " ", "P", "o", "i", "n", "t",
      " ", "[", "x", " ", "y", "]", ")">>

\* braces, an escaped quote, a comment, a mismatch
Example5 ==
    <<"{", ":", "a", " ", "[", "1", " ", "(", "f", " ", "\"", "\\", "\"",
      ")", "\"", " ", "]", "}", " ", ";", " ", ")", "\n", "(", "d", "e",
      "f", "\n", " ", " ", "x", " ", "{", ")", "}", "\n", "[">>

Examples == {Example1, Example2, Example3, Example4, Example5}

NamerLead == {<<>>, <<" ">>, <<",", "\t">>, <<";", "n", "s", "\n">>}
NamerHead ==
    {<<"n", "s">>, <<"d", "e", "f">>, <<"d", "e", "f", "n">>, <<"x">>,
     <<"d", "e">>, <<"n", "s", "x">>, <<"\\", "a">>}
NamerSep ==
    {<<>>, <<" ">>, <<"\n">>, <<";", "c">>, <<";", "c", "\n">>, <<"(">>,
     <<")">>, <<"\"">>, <<"[">>}
NamerName ==
    {<<>>, <<"f">>, <<"f", "o", "o", " ", "x">>, <<"\"", "s", "\"">>,
     <<")">>}

NamerTexts ==
    {<<"(">> \o a \o h \o s \o n :
        a \in NamerLead, h \in NamerHead, s \in NamerSep, n \in NamerName}

Texts == BoundedTexts \cup Examples \cup NamerTexts

(***************************************************************************)
(* The diagnostics of check_file.  Each f-string is held as a record of    *)
(* the values it interpolates, tagged with its fixed wording.              *)
(***************************************************************************)
UnreadableMsg(p) ==
    [kind |-> "unable to read file", path |-> p]

UnexpectedMsg(p, ln, cl, ch) ==
    [kind |-> "unexpected", path |-> p, line |-> ln, col |-> cl, ch |-> ch]

MismatchMsg(p, ln, cl, ch, expected_open, entry) ==
    [kind |-> "closing expected to match", path |-> p, line |-> ln,
     col |-> cl, ch |-> ch, expected |-> expected_open,
     last_open |-> entry.char, form |-> entry.form,
     open_line |-> entry.line, open_col |-> entry.col]

UnclosedMsg(p, entry) ==
    [kind |-> "was never closed", path |-> p, line |-> entry.line,
     col |-> entry.col, ch |-> entry.char, form |-> entry.form]

\* Mutant of Reversed: the stack is walked in push order.
Reversed_PushOrder(s) == s

\* reversed(stack)
Reversed(s) == [k \in 1..Len(s) |-> s[Len(s) + 1 - k]]

(***************************************************************************)
(* check_file: the state after a successful read_text, lines 115-123.      *)
(***************************************************************************)
ScanStart(p, t) ==
    /\ path' = p
    /\ text' = t
    /\ stack' = <<>>
    /\ errors' = <<>>
    /\ line' = 1
    /\ col' = 0
    /\ idx' = 0
    /\ current_form' = "top-level"
    /\ in_string' = FALSE
    /\ escape' = FALSE
    /\ in_comment' = FALSE

\* The character under the cursor, text[idx].
Ch == text[idx + 1]

InLoop == pc = "scan" /\ idx < Len(text)

\* Mutant of StepNewline: the newline does not end the comment.
StepNewline_KeepsComment ==
    /\ InLoop
    /\ Ch = "\n"
    /\ line' = line + 1
    /\ col' = 0
    /\ idx' = idx + 1
    /\ UNCHANGED <<mainVars, pc, path, text, stack, errors, current_form,
                   in_string, escape, in_comment>>

\* lines 127-132
StepNewline ==
    /\ InLoop
    /\ Ch = "\n"
    /\ line' = line + 1
    /\ col' = 0
    /\ in_comment' = FALSE
    /\ idx' = idx + 1
    /\ UNCHANGED <<mainVars, pc, path, text, stack, errors, current_form,
                   in_string, escape>>

\* lines 134-138
StepComment ==
    /\ InLoop
    /\ Ch # "\n"
    /\ in_comment
    /\ col' = col + 1
    /\ idx' = idx + 1
    /\ UNCHANGED <<mainVars, pc, path, text, stack, errors, line,
                   current_form, in_string, escape, in_comment>>

\* Mutant of StepString: characters inside a string do not advance the column.
StepString_NoColumn ==
    /\ InLoop
    /\ Ch # "\n"
    /\ ~in_comment
    /\ in_string
    /\ IF escape
       THEN escape' = FALSE /\ in_string' = in_string
       ELSE IF Ch = "\\"
            THEN escape' = TRUE /\ in_string' = in_string
            ELSE IF Ch = "\""
                 THEN in_string' = FALSE /\ escape' = escape
                 ELSE UNCHANGED <<in_string, escape>>
    /\ idx' = idx + 1
    /\ UNCHANGED <<mainVars, pc, path, text, stack, errors, line, col,
                   current_form, in_comment>>

\* lines 140-148
StepString ==
    /\ InLoop
    /\ Ch # "\n"
    /\ ~in_comment
    /\ in_string
    /\ col' = col + 1
    /\ IF escape
       THEN escape' = FALSE /\ in_string' = in_string
       ELSE IF Ch = "\\"
            THEN escape' = TRUE /\ in_string' = in_string
            ELSE IF Ch = "\""
                 THEN in_string' = FALSE /\ escape' = escape
                 ELSE UNCHANGED <<in_string, escape>>
    /\ idx' = idx + 1
    /\ UNCHANGED <<mainVars, pc, path, text, stack, errors, line,
                   current_form, in_comment>>

\* Mutant of InCode: the in-string branch is missing.
InCode_IgnoresString == InLoop /\ Ch # "\n" /\ ~in_comment

\* The guard of every branch below line 148.
InCode == InLoop /\ Ch # "\n" /\ ~in_comment /\ ~in_string

\* Mutant of StepSemicolon: the semicolon is tested before the string state.
StepSemicolon_InString ==
    /\ InLoop
    /\ Ch = ";"
    /\ ~in_comment
    /\ col' = col + 1
    /\ in_comment' = TRUE
    /\ idx' = idx + 1
    /\ UNCHANGED <<mainVars, pc, path, text, stack, errors, line,
                   current_form, in_string, escape>>

\* lines 150-153
StepSemicolon ==
    /\ InCode
    /\ Ch = ";"
    /\ col' = col + 1
    /\ in_comment' = TRUE
    /\ idx' = idx + 1
    /\ UNCHANGED <<mainVars, pc, path, text, stack, errors, line,
                   current_form, in_string, escape>>

\* lines 155-158
StepQuote ==
    /\ InCode
    /\ Ch = "\""
    /\ col' = col + 1
    /\ in_string' = TRUE
    /\ idx' = idx + 1
    /\ UNCHANGED <<mainVars, pc, path, text, stack, errors, line,
                   current_form, escape, in_comment>>

\* Mutant of StepOpen: any opener at depth zero recomputes the label.
StepOpen_RelabelAnyOpener ==
    /\ InCode
    /\ Ch \in DOMAIN OPENING
    /\ col' = col + 1
    /\ current_form' =
          IF stack = <<>>
          THEN describe_top_level_form(text, idx + 1, line)
          ELSE current_form
    /\ stack' = Append(stack, ParenEntry(Ch, line, col', current_form'))
    /\ idx' = idx + 1
    /\ UNCHANGED <<mainVars, pc, path, text, errors, line, in_string,
                   escape, in_comment>>

\* lines 160-165
StepOpen ==
    /\ InCode
    /\ Ch \in DOMAIN OPENING
    /\ col' = col + 1
    /\ current_form' =
          IF Ch = "(" /\ stack = <<>>
          THEN describe_top_level_form(text, idx + 1, line)
          ELSE current_form
    /\ stack' = Append(stack, ParenEntry(Ch, line, col', current_form'))
    /\ idx' = idx + 1
    /\ UNCHANGED <<mainVars, pc, path, text, errors, line, in_string,
                   escape, in_comment>>

\* Mutant of StepCloseUnexpected: the closer is dropped without a report.
StepCloseUnexpected_Silent ==
    /\ InCode
    /\ Ch \in DOMAIN CLOSING
    /\ stack = <<>>
    /\ col' = col + 1
    /\ idx' = idx + 1
    /\ UNCHANGED <<mainVars, pc, path, text, stack, errors, line,
                   current_form, in_string, escape, in_comment>>

\* Mutant of StepCloseUnexpected: the column is taken before its increment.
StepCloseUnexpected_StaleColumn ==
    /\ InCode
    /\ Ch \in DOMAIN CLOSING
    /\ stack = <<>>
    /\ col' = col + 1
    /\ errors' = Append(errors, UnexpectedMsg(path, line, col, Ch))
    /\ idx' = idx + 1
    /\ UNCHANGED <<mainVars, pc, path, text, stack, line, current_form,
                   in_string, escape, in_comment>>

\* Mutant of StepCloseUnexpected: the diagnostic aborts the scan.
StepCloseUnexpected_Aborts ==
    /\ InCode
    /\ Ch \in DOMAIN CLOSING
    /\ stack = <<>>
    /\ col' = col + 1
    /\ errors' = Append(errors, UnexpectedMsg(path, line, col', Ch))
    /\ pc' = "done"
    /\ UNCHANGED <<mainVars, path, text, stack, line, idx, current_form,
                   in_string, escape, in_comment>>

\* lines 167-173
StepCloseUnexpected ==
    /\ InCode
    /\ Ch \in DOMAIN CLOSING
    /\ stack = <<>>
    /\ col' = col + 1
    /\ errors' = Append(errors, UnexpectedMsg(path, line, col', Ch))
    /\ idx' = idx + 1
    /\ UNCHANGED <<mainVars, pc, path, text, stack, line, current_form,
                   in_string, escape, in_comment>>

\* Mutant of StepClosePop: a mismatched closer pops without a report.
StepClosePop_Silent ==
    /\ InCode
    /\ Ch \in DOMAIN CLOSING
    /\ stack # <<>>
    /\ col' = col + 1
    /\ stack' = SubSeq(stack, 1, Len(stack) - 1)
    /\ idx' = idx + 1
    /\ current_form' = IF stack' = <<>> THEN "top-level" ELSE current_form
    /\ UNCHANGED <<mainVars, pc, path, text, errors, line, in_string,
                   escape, in_comment>>

\* Mutant of StepClosePop: a mismatched closer is reported but pops nothing.
StepClosePop_KeepsOnMismatch ==
    /\ InCode
    /\ Ch \in DOMAIN CLOSING
    /\ stack # <<>>
    /\ col' = col + 1
    /\ LET entry == stack[Len(stack)]
           expected_open == CLOSING[Ch]
       IN
       IF entry.char # expected_open
       THEN /\ stack' = stack
            /\ errors' = Append(errors,
                           MismatchMsg(path, line, col', Ch, expected_open, entry))
       ELSE /\ stack' = SubSeq(stack, 1, Len(stack) - 1)
            /\ errors' = errors
    /\ idx' = idx + 1
    /\ current_form' = IF stack' = <<>> THEN "top-level" ELSE current_form
    /\ UNCHANGED <<mainVars, pc, path, text, line, in_string, escape,
                   in_comment>>

\* Mutant of StepClosePop: the label is kept when the stack empties.
StepClosePop_NoReset ==
    /\ InCode
    /\ Ch \in DOMAIN CLOSING
    /\ stack # <<>>
    /\ col' = col + 1
    /\ LET entry == stack[Len(stack)]
           expected_open == CLOSING[Ch]
       IN
       /\ stack' = SubSeq(stack, 1, Len(stack) - 1)
       /\ errors' =
             IF entry.char # expected_open
             THEN Append(errors,
                         MismatchMsg(path, line, col', Ch, expected_open, entry))
             ELSE errors
    /\ idx' = idx + 1
    /\ UNCHANGED <<mainVars, pc, path, text, line, current_form, in_string,
                   escape, in_comment>>

\* lines 167-168, 175-184
StepClosePop ==
    /\ InCode
    /\ Ch \in DOMAIN CLOSING
    /\ stack # <<>>
    /\ col' = col + 1
    /\ LET entry == stack[Len(stack)]
           expected_open == CLOSING[Ch]
       IN
       /\ stack' = SubSeq(stack, 1, Len(stack) - 1)
       /\ errors' =
             IF entry.char # expected_open
             THEN Append(errors,
                         MismatchMsg(path, line, col', Ch, expected_open, entry))
             ELSE errors
    /\ idx' = idx + 1
    /\ current_form' = IF stack' = <<>> THEN "top-level" ELSE current_form
    /\ UNCHANGED <<mainVars, pc, path, text, line, in_string, escape,
                   in_comment>>

\* Mutant of StepOther: the column is not advanced over a plain character.
StepOther_NoColumn ==
    /\ InCode
    /\ Ch # ";"
    /\ Ch # "\""
    /\ Ch \notin DOMAIN OPENING
    /\ Ch \notin DOMAIN CLOSING
    /\ idx' = idx + 1
    /\ UNCHANGED <<mainVars, pc, path, text, stack, errors, line, col,
                   current_form, in_string, escape, in_comment>>

\* line 186
StepOther ==
    /\ InCode
    /\ Ch # ";"
    /\ Ch # "\""
    /\ Ch \notin DOMAIN OPENING
    /\ Ch \notin DOMAIN CLOSING
    /\ col' = col + 1
    /\ idx' = idx + 1
    /\ UNCHANGED <<mainVars, pc, path, text, stack, errors, line,
                   current_form, in_string, escape, in_comment>>

\* lines 125, 188-194: the loop ends, the unclosed openers are reported and
\* check_file returns errors.
Finish ==
    /\ pc = "scan"
    /\ ~(idx < Len(text))
    /\ errors' =
          IF stack # <<>>
          THEN errors \o [k \in 1..Len(stack) |->
                             UnclosedMsg(path, Reversed(stack)[k])]
          ELSE errors
    /\ pc' = "done"
    /\ UNCHANGED <<mainVars, path, text, stack, line, col, idx,
                   current_form, in_string, escape, in_comment>>

ScanStep ==
    \/ StepNewline
    \/ StepComment
    \/ StepString
    \/ StepSemicolon
    \/ StepQuote
    \/ StepOpen
    \/ StepCloseUnexpected
    \/ StepClosePop
    \/ StepOther
    \/ Finish

(***************************************************************************)
(* The file system main runs on.  A path that is no key of FS does not     *)
(* exist.  read is what path.read_text(encoding="utf-8") does: "ok"        *)
(* returns content, "oserror" raises OSError, "decode" raises              *)
(* UnicodeDecodeError (a ValueError, not an OSError).                      *)
(***************************************************************************)
OkText ==
    <<"(", "n", "s", " ", "a", ")", "\n", "\"", "x", "\"", " ", ";", "c",
      "\n">>
BadText == <<"(", "]", ")">>

File(ext, under, read, content) ==
    [kind |-> "file", ext |-> ext, under |-> under, read |-> read,
     content |-> content]
Dir(ext, under) ==
    [kind |-> "dir", ext |-> ext, under |-> under, read |-> "oserror",
     content |-> <<>>]

FS ==
    [p \in {"ok.clj", "bad.clj", "locked.clj", "binary.clj", "src", "empty",
            "src/a.clj", "src/z.clj", "src/m.cljs", "src/b.cljc",
            "src/notes.txt", "src/sub.clj"} |->
        CASE p = "ok.clj" -> File(".clj", {}, "ok", OkText)
          [] p = "bad.clj" -> File(".clj", {}, "ok", BadText)
          [] p = "locked.clj" -> File(".clj", {}, "oserror", <<>>)
          [] p = "binary.clj" -> File(".clj", {}, "decode", <<>>)
          [] p = "src" -> Dir("", {})
          [] p = "empty" -> Dir("", {})
          [] p = "src/a.clj" -> File(".clj", {"src"}, "ok", <<"[", "]">>)
          [] p = "src/z.clj" -> File(".clj", {"src"}, "ok", <<"(">>)
          [] p = "src/m.cljs" -> File(".cljs", {"src"}, "ok", <<"{", "}">>)
          [] p = "src/b.cljc" -> File(".cljc", {"src"}, "ok", <<"\"", "(", "\"">>)
          [] p = "src/notes.txt" -> File(".txt", {"src"}, "ok", <<")">>)
          [] p = "src/sub.clj" -> Dir(".clj", {"src"})]

\* The paths of FS in the order Path.__lt__ gives them.
PathOrder ==
    <<"bad.clj", "binary.clj", "empty", "locked.clj", "ok.clj", "src",
      "src/a.clj", "src/b.cljc", "src/m.cljs", "src/notes.txt",
      "src/sub.clj", "src/z.clj">>

PathRank(p) == CHOOSE k \in 1..Len(PathOrder) : PathOrder[k] = p

\* The path arguments tried: the top-level entries of FS and a missing one.
ArgPaths == {"ok.clj", "bad.clj", "locked.clj", "binary.clj", "src", "empty", "nope"}

\* parse_args with nargs="+" returns only for one or more paths.
ArgLists == UNION {[1..n -> ArgPaths] : n \in 1..MaxArgs}

(***************************************************************************)
(* gather_files.  Iterating the set SIGNIFICANT_EXTENSIONS takes its       *)
(* members in an order the interpreter picks (string hashing is seeded     *)
(* per process), so the order is a parameter chosen by the caller.         *)
(***************************************************************************)
ExtensionOrders ==
    {o \in [1..Cardinality(SIGNIFICANT_EXTENSIONS) -> SIGNIFICANT_EXTENSIONS] :
        \A e \in SIGNIFICANT_EXTENSIONS : \E k \in DOMAIN o : o[k] = e}

\* p.rglob(f"*{ext}"): everything below p whose name ends in ext
rglob(p, ext) == {q \in DOMAIN FS : p \in FS[q].under /\ FS[q].ext = ext}

RECURSIVE sorted(_)
sorted(S) ==
    IF S = {}
    THEN <<>>
    ELSE LET m == CHOOSE x \in S : \A y \in S : PathRank(x) <= PathRank(y)
         IN <<m>> \o sorted(S \ {m})

is_file(q) == FS[q].kind = "file"

RECURSIVE Flatten(_)
Flatten(ss) == IF ss = <<>> THEN <<>> ELSE Head(ss) \o Flatten(Tail(ss))

\* lines 45-55: what one path argument adds to files
Resolve(raw, order) ==
    IF raw \notin DOMAIN FS
    THEN <<>>
    ELSE IF FS[raw].kind = "dir"
         THEN Flatten([k \in DOMAIN order |->
                          SelectSeq(sorted(rglob(raw, order[k])), is_file)])
         ELSE <<raw>>

exists(raw) == raw \in DOMAIN FS

gather_files(paths, order) ==
    <<Flatten([k \in DOMAIN paths |-> Resolve(paths[k], order)]),
      SelectSeq(paths, LAMBDA raw : ~exists(raw))>>

(***************************************************************************)
(* main, from line 210 on.                                                 *)
(***************************************************************************)
\* lines 210-219
MainGather ==
    /\ pc = "main"
    /\ \E order \in ExtensionOrders :
          /\ files' = gather_files(argv, order)[1]
          /\ missing' = gather_files(argv, order)[2]
    /\ exit_code' = IF missing' # <<>> THEN 1 ELSE 0
    /\ stderr' = missing'
    /\ IF files' = <<>>
       THEN /\ returned' = <<IF exit_code' # 0 THEN exit_code' ELSE 1>>
            /\ pc' = "exit"
       ELSE /\ returned' = returned
            /\ pc' = "loop"
    /\ UNCHANGED <<argv, fi, stdout, scanVars>>

\* lines 221-222 and 109-123: the loop takes the next file and check_file
\* reads it
MainCheckFile ==
    /\ pc = "loop"
    /\ fi < Len(files)
    /\ fi' = fi + 1
    /\ LET p == files[fi + 1] IN
       CASE FS[p].read = "ok" ->
              /\ ScanStart(p, FS[p].content)
              /\ pc' = "scan"
         [] FS[p].read = "oserror" ->
              /\ path' = p
              /\ errors' = <<UnreadableMsg(p)>>
              /\ pc' = "done"
              /\ UNCHANGED <<text, stack, line, col, idx, current_form,
                             in_string, escape, in_comment>>
         [] FS[p].read = "decode" ->
              /\ path' = p
              /\ pc' = "raised"
              /\ UNCHANGED <<text, stack, errors, line, col, idx,
                             current_form, in_string, escape, in_comment>>
    /\ UNCHANGED <<argv, files, missing, exit_code, stdout, stderr, returned>>

\* lines 222-229: check_file has returned problems
MainReport ==
    /\ pc = "done"
    /\ IF errors # <<>>
       THEN /\ exit_code' = 1
            /\ stdout' = Append(stdout, [path |-> path, balanced |-> FALSE,
                                         issues |-> errors])
       ELSE /\ exit_code' = exit_code
            /\ stdout' = Append(stdout, [path |-> path, balanced |-> TRUE,
                                         issues |-> <<>>])
    /\ pc' = "loop"
    /\ UNCHANGED <<argv, files, missing, fi, stderr, returned, scanVars>>

\* line 231
MainReturn ==
    /\ pc = "loop"
    /\ ~(fi < Len(files))
    /\ returned' = <<exit_code>>
    /\ pc' = "exit"
    /\ UNCHANGED <<argv, files, missing, exit_code, fi, stdout, stderr,
                   scanVars>>

\* line 235: the status the process ends with.  An exception that leaves
\* main ends the interpreter with status 1.
ExitStatus == IF pc = "exit" THEN returned[1] ELSE 1

(***************************************************************************)
(* Spec: check_file on one readable file, for every text of Texts.         *)
(***************************************************************************)
Init ==
    /\ argv = <<"core.clj">>
    /\ files = <<"core.clj">>
    /\ missing = <<>>
    /\ exit_code = 0
    /\ fi = 1
    /\ stdout = <<>>
    /\ stderr = <<>>
    /\ returned = <<>>
    /\ pc = "scan"
    /\ path = "core.clj"
    /\ text \in Texts
    /\ stack = <<>>
    /\ errors = <<>>
    /\ line = 1
    /\ col = 0
    /\ idx = 0
    /\ current_form = "top-level"
    /\ in_string = FALSE
    /\ escape = FALSE
    /\ in_comment = FALSE

Next == ScanStep

Spec == Init /\ [][Next]_vars

(***************************************************************************)
(* MainSpec: main on every list of one to MaxArgs path arguments.          *)
(***************************************************************************)
MainInit ==
    /\ argv \in ArgLists
    /\ files = <<>>
    /\ missing = <<>>
    /\ exit_code = 0
    /\ fi = 0
    /\ stdout = <<>>
    /\ stderr = <<>>
    /\ returned = <<>>
    /\ pc = "main"
    /\ path = ""
    /\ text = <<>>
    /\ stack = <<>>
    /\ errors = <<>>
    /\ line = 1
    /\ col = 0
    /\ idx = 0
    /\ current_form = "top-level"
    /\ in_string = FALSE
    /\ escape = FALSE
    /\ in_comment = FALSE

MainNext ==
    \/ MainGather
    \/ MainCheckFile
    \/ ScanStep
    \/ MainReport
    \/ MainReturn

MainSpec == MainInit /\ [][MainNext]_vars

(***************************************************************************)
(* Reference notions the properties are stated with.  They are written     *)
(* from the glossary, over the whole text, and use none of the scanner's   *)
(* variables.                                                              *)
(***************************************************************************)
Openers == {"(", "[", "{"}
Closers == {")", "]", "}"}
MatchingPairs == {<<"(", ")">>, <<"[", "]">>, <<"{", "}">>}

\* The lexical mode after the first k characters of t: priority list of
\* spec section 4.1, items 1 to 8.
RECURSIVE RefMode(_, _)
RefMode(t, k) ==
    IF k = 0
    THEN "code"
    ELSE LET m == RefMode(t, k - 1)
             c == t[k]
         IN
         IF c = "\n"
         THEN IF m = "comment" THEN "code" ELSE m
         ELSE CASE m = "comment" -> "comment"
                [] m = "escape" -> "string"
                [] m = "string" ->
                     IF c = "\\" THEN "escape"
                     ELSE IF c = "\"" THEN "code" ELSE "string"
                [] OTHER ->
                     IF c = ";" THEN "comment"
                     ELSE IF c = "\"" THEN "string" ELSE "code"

\* The positions of the delimiters outside strings and line comments.
VisiblePositions(t) ==
    {k \in 1..Len(t) : t[k] \in Openers \cup Closers /\ RefMode(t, k - 1) = "code"}

RECURSIVE SortedSeq(_)
SortedSeq(S) ==
    IF S = {}
    THEN <<>>
    ELSE LET m == CHOOSE x \in S : \A y \in S : x <= y
         IN <<m>> \o SortedSeq(S \ {m})

VisibleDelims(t) ==
    LET ps == SortedSeq(VisiblePositions(t))
    IN [k \in 1..Len(ps) |-> t[ps[k]]]

\* Well nested: deleting adjacent matching pairs leaves nothing.
RECURSIVE Reduce(_)
Reduce(d) ==
    IF \E k \in 1..(Len(d) - 1) : <<d[k], d[k + 1]>> \in MatchingPairs
    THEN LET k == CHOOSE j \in 1..(Len(d) - 1) : <<d[j], d[j + 1]>> \in MatchingPairs
         IN Reduce(SubSeq(d, 1, k - 1) \o SubSeq(d, k + 2, Len(d)))
    ELSE d

WellNested(d) == Reduce(d) = <<>>

\* d[i] and d[j] are a correctly-typed, correctly-nested pair.
Paired(d, i, j) ==
    /\ i < j
    /\ <<d[i], d[j]>> \in MatchingPairs
    /\ WellNested(SubSeq(d, i + 1, j - 1))

EveryOpenerClosed(d) ==
    \A i \in 1..Len(d) : d[i] \in Openers => \E j \in 1..Len(d) : Paired(d, i, j)

EveryCloserOpened(d) ==
    \A j \in 1..Len(d) : d[j] \in Closers => \E i \in 1..Len(d) : Paired(d, i, j)

Balanced(d) == EveryOpenerClosed(d) /\ EveryCloserOpened(d)

\* 1-based line and column of the k-th character of t.
LineOf(t, k) == 1 + Cardinality({m \in 1..(k - 1) : t[m] = "\n"})
ColOf(t, k) ==
    LET nl == {m \in 1..(k - 1) : t[m] = "\n"}
    IN IF nl = {} THEN k ELSE k - (CHOOSE m \in nl : \A y \in nl : y <= m)

DelimiterKinds == {"unexpected", "closing expected to match", "was never closed"}

DelimiterDiagnostics ==
    Cardinality({k \in 1..Len(errors) : errors[k].kind \in DelimiterKinds})

(***************************************************************************)
(* C1: check_file returns no diagnostic if and only if the delimiters      *)
(* outside strings and line comments are balanced: every opener has its    *)
(* correctly-typed, correctly-nested closer and every closer its opener.   *)
(***************************************************************************)
C1_EmptyIffBalanced ==
    pc = "done" => (errors = <<>> <=> Balanced(VisibleDelims(text)))

\* a balanced text in which a string or comment hides a delimiter
C1_Witness ==
    /\ pc = "done"
    /\ errors = <<>>
    /\ VisibleDelims(text) # <<>>
    /\ \E k \in 1..Len(text) :
          text[k] \in Openers \cup Closers /\ k \notin VisiblePositions(text)

(***************************************************************************)
(* C2 as stated: the mismatched, unexpected and unclosed diagnostics       *)
(* number zero if and only if every opener outside strings and comments    *)
(* has a correctly-typed, correctly-nested closer.                         *)
(***************************************************************************)
C2_Original ==
    pc = "done" =>
        (DelimiterDiagnostics = 0 <=> EveryOpenerClosed(VisibleDelims(text)))

(***************************************************************************)
(* C2 amended: the mismatched, unexpected and unclosed diagnostics number  *)
(* zero if and only if every opener outside strings and comments has a     *)
(* correctly-typed, correctly-nested closer and every closer outside       *)
(* strings and comments has such an opener.                                *)
(***************************************************************************)
C2_ZeroIffAllMatched ==
    pc = "done" =>
        (DelimiterDiagnostics = 0 <=>
            /\ EveryOpenerClosed(VisibleDelims(text))
            /\ EveryCloserOpened(VisibleDelims(text)))

\* every opener is closed, yet a closer without opener is reported
C2_Witness ==
    /\ pc = "done"
    /\ EveryOpenerClosed(VisibleDelims(text))
    /\ \E k \in 1..Len(VisibleDelims(text)) : VisibleDelims(text)[k] \in Openers
    /\ DelimiterDiagnostics = 1
    /\ errors[1].kind = "unexpected"

(***************************************************************************)
(* C3: while the scanner is in the in-string state, no character (no       *)
(* delimiter, semicolon or newline, also after an escaped quote) changes   *)
(* the delimiter stack, the current form label or the diagnostic list.     *)
(***************************************************************************)
C3_StringFrame ==
    [][(pc = "scan" /\ idx < Len(text) /\ in_string) =>
          /\ stack' = stack
          /\ current_form' = current_form
          /\ errors' = errors
          /\ pc' = "scan"
          /\ idx' = idx + 1]_vars

\* a delimiter was just read inside a string, after an escaped quote, with
\* an opener on the stack
C3_Witness ==
    /\ pc = "scan"
    /\ in_string
    /\ stack # <<>>
    /\ idx >= 3
    /\ text[idx] \in Openers \cup Closers
    /\ \E k \in 2..(idx - 1) : text[k] = "\"" /\ text[k - 1] = "\\"

(***************************************************************************)
(* C4: after a semicolon read outside a string the scanner is in the       *)
(* comment state; there every character but a newline leaves the stack,    *)
(* the string and escape flags and the diagnostics unchanged and keeps the *)
(* comment state, a double-quote opens no string, and the newline, and     *)
(* only the newline, ends the comment state.                               *)
(***************************************************************************)
C4_CommentFrame ==
    [][(pc = "scan" /\ idx < Len(text)) =>
          /\ (~in_string /\ ~in_comment /\ text[idx + 1] = ";") => in_comment'
          /\ in_comment =>
                /\ stack' = stack
                /\ in_string' = in_string
                /\ escape' = escape
                /\ errors' = errors
                /\ ~in_string'
                /\ in_comment' = (text[idx + 1] # "\n")]_vars

\* a double-quote and a delimiter were read inside a comment
C4_Witness ==
    /\ pc = "scan"
    /\ in_comment
    /\ idx >= 3
    /\ text[idx] \in Openers \cup Closers
    /\ text[idx - 1] = "\""
    /\ \A k \in 1..idx : text[k] # "\n"

(***************************************************************************)
(* C5: a closer read outside strings and comments with a non-empty stack   *)
(* pops the top entry.  If the kinds differ exactly one diagnostic is      *)
(* appended, with the closer's line and column and the popped entry's      *)
(* character, form label and open position; if they match none is.  The    *)
(* scan goes on with the next character.                                   *)
(***************************************************************************)
C5_CloserPops ==
    [][(pc = "scan" /\ idx < Len(text) /\ ~in_string /\ ~in_comment
        /\ text[idx + 1] \in Closers /\ stack # <<>>) =>
          LET top == stack[Len(stack)] IN
          /\ stack' = SubSeq(stack, 1, Len(stack) - 1)
          /\ pc' = "scan"
          /\ idx' = idx + 1
          /\ IF <<top.char, text[idx + 1]>> \in MatchingPairs
             THEN errors' = errors
             ELSE /\ Len(errors') = Len(errors) + 1
                  /\ SubSeq(errors', 1, Len(errors)) = errors
                  /\ LET e == errors'[Len(errors')] IN
                     /\ e.kind = "closing expected to match"
                     /\ e.line = LineOf(text, idx + 1)
                     /\ e.col = ColOf(text, idx + 1)
                     /\ e.ch = text[idx + 1]
                     /\ e.last_open = top.char
                     /\ e.form = top.form
                     /\ e.open_line = top.line
                     /\ e.open_col = top.col]_vars

\* a mismatched closer was just read and popped an entry, leaving one
C5_Witness ==
    /\ pc = "scan"
    /\ idx >= 3
    /\ text[idx] \in Closers
    /\ stack # <<>>
    /\ errors # <<>>
    /\ errors[Len(errors)].kind = "closing expected to match"
    /\ errors[Len(errors)].line = line
    /\ errors[Len(errors)].col = col

(***************************************************************************)
(* C6: a closer read outside strings and comments with an empty stack      *)
(* appends exactly one "unexpected" diagnostic at the closer's line and    *)
(* column and leaves the stack (still empty), the current form label and   *)
(* the string, escape and comment flags unchanged.                         *)
(***************************************************************************)
C6_UnexpectedCloser ==
    [][(pc = "scan" /\ idx < Len(text) /\ ~in_string /\ ~in_comment
        /\ text[idx + 1] \in Closers /\ stack = <<>>) =>
          /\ Len(errors') = Len(errors) + 1
          /\ SubSeq(errors', 1, Len(errors)) = errors
          /\ errors'[Len(errors')].kind = "unexpected"
          /\ errors'[Len(errors')].line = LineOf(text, idx + 1)
          /\ errors'[Len(errors')].col = ColOf(text, idx + 1)
          /\ errors'[Len(errors')].ch = text[idx + 1]
          /\ stack' = <<>>
          /\ current_form' = current_form
          /\ in_string' = in_string
          /\ escape' = escape
          /\ in_comment' = in_comment]_vars

\* an unexpected closer was just reported on the second line
C6_Witness ==
    /\ pc = "scan"
    /\ idx >= 2
    /\ text[idx] \in Closers
    /\ stack = <<>>
    /\ errors # <<>>
    /\ errors[Len(errors)].kind = "unexpected"
    /\ errors[Len(errors)].line = 2
    /\ errors[Len(errors)].col = col
    /\ line = 2

(***************************************************************************)
(* C7: when the scan has ended the diagnostics are the mismatched and      *)
(* unexpected closers, in the order of their positions in the text,        *)
(* followed by exactly one unclosed diagnostic per entry left on the       *)
(* stack, at that entry's line and column, most recently opened first.     *)
(***************************************************************************)
PositionBefore(a, b) ==
    a.line < b.line \/ (a.line = b.line /\ a.col < b.col)

C7_UnclosedLast ==
    pc = "done" =>
        LET n == Len(errors) - Len(stack) IN
        /\ n >= 0
        /\ \A k \in 1..n : errors[k].kind \in {"unexpected", "closing expected to match"}
        /\ \A j, k \in 1..n : j < k => PositionBefore(errors[j], errors[k])
        /\ \A k \in 1..Len(stack) :
              LET e == errors[n + k]
                  entry == stack[Len(stack) + 1 - k]
              IN
              /\ e.kind = "was never closed"
              /\ e.line = entry.line
              /\ e.col = entry.col
              /\ e.ch = entry.char
              /\ e.form = entry.form

\* two openers left unclosed after a reported closer
C7_Witness ==
    /\ pc = "done"
    /\ Len(stack) >= 2
    /\ Len(errors) > Len(stack)
    /\ errors[Len(errors)].col = stack[1].col
    /\ errors[Len(errors)].line = stack[1].line

(***************************************************************************)
(* C8: the current form label is recomputed, by the Form Namer at the      *)
(* index just past the character and with the current line, exactly when   *)
(* a "(" is read outside strings and comments with an empty stack; every   *)
(* other opener is pushed with the label unchanged; an entry on the stack  *)
(* is never modified.                                                      *)
(***************************************************************************)
C8_Relabel ==
    [][(pc = "scan" /\ idx < Len(text)) =>
          LET ch == text[idx + 1]
              code == ~in_string /\ ~in_comment /\ ch # "\n"
              top_paren == code /\ ch = "(" /\ stack = <<>>
          IN
          /\ top_paren =>
                /\ current_form' = describe_top_level_form(text, idx + 1, line)
                /\ stack' = <<ParenEntry("(", line, col + 1, current_form')>>
          /\ (code /\ ch \in Openers /\ ~top_paren) =>
                /\ current_form' = current_form
                /\ stack' = Append(stack, ParenEntry(ch, line, col + 1, current_form))
          /\ \A k \in 1..Len(stack) : k <= Len(stack') => stack'[k] = stack[k]
          /\ current_form' # current_form =>
                \/ top_paren
                \/ (code /\ ch \in Closers /\ stack' = <<>>
                    /\ current_form' = "top-level")]_vars

\* after a labelled form has closed, a "[" was pushed at depth zero and a
\* "(" inside it, both with the label unchanged
C8_Witness ==
    /\ pc = "scan"
    /\ idx >= 4
    /\ text[1] = "("
    /\ Len(stack) = 2
    /\ stack[1].char = "["
    /\ stack[2].char = "("
    /\ stack[1].form = "top-level"
    /\ stack[2].form = "top-level"
    /\ current_form = "top-level"

(***************************************************************************)
(* C9: the label of a top-level "(" on line N.  After whitespace (space,   *)
(* tab, CR, LF, comma) and line comments: "form starting line N" if the    *)
(* text ends or a delimiter or double-quote comes next; "<keyword> <name>" *)
(* if the first symbol is a definition keyword or ns and a second symbol   *)
(* follows after the same skipping; "<symbol> form line N" otherwise.  The *)
(* second form of example 4 is labelled "defrecord Point".                 *)
(***************************************************************************)
RefWhitespace == {" ", "\t", "\r", "\n", ","}
RefTokenStop == RefWhitespace \cup Openers \cup Closers \cup {"\"", ";"}

\* 0-based position k, reached by skipping from i, holds whitespace or lies
\* in a line comment.
Skippable(t, i, k) ==
    \/ t[k + 1] \in RefWhitespace
    \/ \E c \in i..k : t[c + 1] = ";" /\ \A m \in c..k : t[m + 1] # "\n"

\* where the first token at or after i starts (Len(t) if there is none)
TokenStart(t, i) ==
    CHOOSE j \in i..Len(t) :
        /\ \A k \in i..(j - 1) : Skippable(t, i, k)
        /\ j < Len(t) => ~Skippable(t, i, j)

\* where the symbol starting at j ends
TokenEnd(t, j) ==
    CHOOSE e \in j..Len(t) :
        /\ \A k \in j..(e - 1) : t[k + 1] \notin RefTokenStop
        /\ e < Len(t) => t[e + 1] \in RefTokenStop

\* the symbol found from i (empty if none) and the index after it
RefSymbol(t, i) ==
    LET j == TokenStart(t, i) IN
    IF j >= Len(t) THEN <<>> ELSE Slice(t, j, TokenEnd(t, j))

RefAfter(t, i) == TokenEnd(t, TokenStart(t, i))

RefLabel(t, i, ln) ==
    LET symbol == RefSymbol(t, i)
        name == RefSymbol(t, RefAfter(t, i))
    IN
    IF symbol = <<>>
    THEN "form starting line " \o ToString(ln)
    ELSE IF Str(symbol) \in DEF_LIKE \cup {"ns"} /\ name # <<>>
         THEN Str(symbol) \o " " \o Str(name)
         ELSE Str(symbol) \o " form line " \o ToString(ln)

C9_FormLabel ==
    [][(pc = "scan" /\ idx < Len(text) /\ ~in_string /\ ~in_comment
        /\ text[idx + 1] = "(" /\ stack = <<>>) =>
          /\ current_form' = RefLabel(text, idx + 1, line)
          /\ (text = Example4 /\ idx = 12) => current_form' = "defrecord Point"]_vars

\* the second top-level form of example 4 has been labelled
C9_Witness ==
    /\ pc = "scan"
    /\ text = Example4
    /\ idx = 13
    /\ Len(stack) = 1
    /\ current_form = "defrecord Point"

(***************************************************************************)
(* What main is given, stated from argv and the file system alone.         *)
(***************************************************************************)
\* the files a path argument stands for
ResolvedBy(raw) ==
    IF raw \notin DOMAIN FS
    THEN {}
    ELSE IF FS[raw].kind = "dir"
         THEN {q \in DOMAIN FS :
                  /\ raw \in FS[q].under
                  /\ FS[q].kind = "file"
                  /\ FS[q].ext \in {".clj", ".cljc", ".cljs"}}
         ELSE {raw}

ResolvedFiles == UNION {ResolvedBy(argv[k]) : k \in DOMAIN argv}

NoPathMissing == \A k \in DOMAIN argv : argv[k] \in DOMAIN FS

\* check_file returns no diagnostic for p
ChecksClean(p) ==
    FS[p].read = "ok" /\ Balanced(VisibleDelims(FS[p].content))

AllGood ==
    /\ ResolvedFiles # {}
    /\ NoPathMissing
    /\ \A p \in ResolvedFiles : ChecksClean(p)

MainEnded == pc \in {"exit", "raised"}

(***************************************************************************)
(* C10: main returns 0 if and only if at least one file was resolved, no   *)
(* path argument was missing and check_file returned no diagnostic for     *)
(* every resolved file; otherwise it returns 1.                            *)
(***************************************************************************)
C10_ExitStatus ==
    MainEnded =>
        /\ pc = "exit"
        /\ returned = <<IF AllGood THEN 0 ELSE 1>>

\* What holds of the code: whenever main returns, it returns 0 or 1 as the
\* claim says, and it fails to return only when the claim asks for 1.
MainReturnsStatus ==
    /\ pc = "exit" => returned = <<IF AllGood THEN 0 ELSE 1>>
    /\ pc = "raised" => ~AllGood /\ FS[path].read = "decode"

(***************************************************************************)
(* C11: every resolved file is checked and reported exactly once per       *)
(* occurrence in the resolved list, whatever happens with the other        *)
(* inputs: when main has ended, stdout holds one report per entry of       *)
(* files, in order, and a file is reported balanced exactly when its own   *)
(* check is clean.                                                         *)
(***************************************************************************)
ReportedAll ==
    /\ Len(stdout) = Len(files)
    /\ \A k \in 1..Len(files) :
          /\ stdout[k].path = files[k]
          /\ stdout[k].balanced = ChecksClean(files[k])
    /\ {files[k] : k \in 1..Len(files)} = ResolvedFiles

C11_EveryFileReported == MainEnded => ReportedAll

\* What holds of the code: whenever main returns, every resolved file has
\* been reported, also after a missing path, an unreadable file or a file
\* with diagnostics.
MainReportsAllWhenReturned == pc = "exit" => ReportedAll

(***************************************************************************)
(* C12: for an existing file that cannot be read or cannot be decoded as   *)
(* UTF-8, check_file returns exactly one diagnostic for that file and      *)
(* nothing else; the run does not abort, goes on to the remaining files    *)
(* and ends with a non-zero exit status.                                   *)
(***************************************************************************)
Unreadable(p) == FS[p].read # "ok"

OneUnreadableDiagnostic ==
    /\ Len(errors) = 1
    /\ errors[1].kind = "unable to read file"
    /\ errors[1].path = path

C12_UnreadableReported ==
    /\ pc # "raised"
    /\ (pc = "done" /\ Unreadable(path)) => OneUnreadableDiagnostic
    /\ (pc = "exit" /\ \E p \in ResolvedFiles : Unreadable(p)) =>
          /\ returned = <<1>>
          /\ ReportedAll

\* What holds of the code: the claim for the files whose read raises OSError.
OSErrorReported ==
    /\ (pc = "done" /\ FS[path].read = "oserror") => OneUnreadableDiagnostic
    /\ (pc = "exit" /\ \E p \in ResolvedFiles : Unreadable(p)) =>
          /\ returned = <<1>>
          /\ ReportedAll
    /\ pc = "raised" => FS[path].read = "decode"

(***************************************************************************)
(* C13: for a directory argument gather_files returns the .clj, .cljc and  *)
(* .cljs files found below it in lexicographically sorted order, sorted by *)
(* path across all extensions (and so the same sequence on every run).     *)
(***************************************************************************)
OneDirectoryGathered ==
    /\ pc # "main"
    /\ Len(argv) = 1
    /\ argv[1] \in DOMAIN FS
    /\ FS[argv[1]].kind = "dir"

C13_DirectorySorted ==
    OneDirectoryGathered =>
        /\ {files[k] : k \in 1..Len(files)} = ResolvedBy(argv[1])
        /\ \A j, k \in 1..Len(files) :
              j < k => PathRank(files[j]) < PathRank(files[k])

\* What holds of the code: the right files, each once, sorted among the
\* files of the same extension.
SortedWithinExtension ==
    OneDirectoryGathered =>
        /\ {files[k] : k \in 1..Len(files)} = ResolvedBy(argv[1])
        /\ Len(files) = Cardinality(ResolvedBy(argv[1]))
        /\ \A j, k \in 1..Len(files) :
              (j < k /\ FS[files[j]].ext = FS[files[k]].ext) =>
                  PathRank(files[j]) < PathRank(files[k])

(***************************************************************************)
(* C14 as stated: for the text of example 2 the scan yields exactly three  *)
(* unclosed diagnostics: the "(" of line 1 column 13, the "[" of line 1    *)
(* column 9, the "(" of line 1 column 1, each inside "defn f".             *)
(***************************************************************************)
IsUnclosed(e, ch, ln, cl, form) ==
    /\ e.kind = "was never closed"
    /\ e.ch = ch
    /\ e.line = ln
    /\ e.col = cl
    /\ e.form = form

C14_Original ==
    (pc = "done" /\ text = Example2) =>
        /\ Len(errors) = 3
        /\ IsUnclosed(errors[1], "(", 1, 13, "defn f")
        /\ IsUnclosed(errors[2], "[", 1, 9, "defn f")
        /\ IsUnclosed(errors[3], "(", 1, 1, "defn f")

(***************************************************************************)
(* C14 amended: for the text of example 2 the scan yields exactly two      *)
(* unclosed diagnostics and nothing else: the "[" of line 1 column 9, then *)
(* the "(" of line 1 column 1, each inside "defn f" (the inner "(", at     *)
(* column 12, is closed by the final ")").                                 *)
(***************************************************************************)
C14_TwoUnclosed ==
    (pc = "done" /\ text = Example2) =>
        /\ Len(errors) = 2
        /\ IsUnclosed(errors[1], "[", 1, 9, "defn f")
        /\ IsUnclosed(errors[2], "(", 1, 1, "defn f")

\* the scan of example 2 has ended with the inner "(" at column 12 closed
C14_Witness ==
    /\ pc = "done"
    /\ text = Example2
    /\ Len(stack) = 2
    /\ errors # <<>>
    /\ text[12] = "("
    /\ text[Len(text)] = ")"

(***************************************************************************)
(* C15 as stated: for the text of example 3 the scan yields no unclosed    *)
(* diagnostic and exactly one unexpected-closer diagnostic, at the "]",    *)
(* line 1, column 9.                                                       *)
(***************************************************************************)
OneUnexpectedAt(ln, cl) ==
    /\ Len(errors) = 1
    /\ errors[1].kind = "unexpected"
    /\ errors[1].ch = "]"
    /\ errors[1].line = ln
    /\ errors[1].col = cl

C15_Original == (pc = "done" /\ text = Example3) => OneUnexpectedAt(1, 9)

(***************************************************************************)
(* C15 amended: for the text of example 3 the scan yields no unclosed      *)
(* diagnostic and exactly one unexpected-closer diagnostic, at the "]",    *)
(* which is the eighth character: line 1, column 8.                        *)
(***************************************************************************)
C15_UnexpectedAtColumn8 ==
    (pc = "done" /\ text = Example3) =>
        /\ OneUnexpectedAt(1, 8)
        /\ text[8] = "]"
        /\ Len(text) = 8

\* the scan of example 3 has ended with its one diagnostic
C15_Witness ==
    /\ pc = "done"
    /\ text = Example3
    /\ stack = <<>>
    /\ Len(errors) = 1

(***************************************************************************)
(* C16: in every state of a scan exactly one of normal, in-string and      *)
(* in-comment holds: in_string and in_comment are never both true, and     *)
(* the pending-escape flag is true only while in_string is true.           *)
(***************************************************************************)
C16_ExclusiveModes ==
    /\ ~(in_string /\ in_comment)
    /\ escape => in_string
    /\ Cardinality({m \in {"normal", "string", "comment"} :
                       \/ m = "normal" /\ ~in_string /\ ~in_comment
                       \/ m = "string" /\ in_string
                       \/ m = "comment" /\ in_comment}) = 1

\* a backslash was just read inside a string that holds a semicolon
C16_Witness ==
    /\ pc = "scan"
    /\ in_string
    /\ escape
    /\ ~in_comment
    /\ idx >= 3
    /\ text[idx] = "\\"
    /\ text[idx - 1] = ";"

(***************************************************************************)
(* C17: inside a string, once a backslash has set the pending-escape flag, *)
(* the very next character, whatever it is (a newline, a double-quote,     *)
(* another backslash), is consumed as the escaped character and clears     *)
(* the flag, the string staying open, so that the character after it is    *)
(* classified normally.                                                    *)
(***************************************************************************)
C17_EscapeConsumesNext ==
    [][(pc = "scan" /\ idx < Len(text) /\ in_string /\ escape) =>
          /\ ~escape'
          /\ in_string'
          /\ idx' = idx + 1]_vars

\* What holds of the code: every character but the newline clears the flag
\* and leaves the string open; the newline leaves the flag pending, so the
\* character after the newline is the one taken as escaped.
EscapeClearedUnlessNewline ==
    [][(pc = "scan" /\ idx < Len(text) /\ in_string /\ escape) =>
          /\ escape' = (text[idx + 1] = "\n")
          /\ in_string'
          /\ idx' = idx + 1]_vars

(***************************************************************************)
(* C18: the line and column stored in every stack entry and reported in    *)
(* every diagnostic are 1-based and exact: they are the line and column of *)
(* a character of the text that is the delimiter named, line being 1 plus  *)
(* the newlines before it and column the characters from the start of its  *)
(* line up to and including it, characters of strings and comments and     *)
(* newlines inside strings counted.                                        *)
(***************************************************************************)
ExactPosition(ch, ln, cl, upto) ==
    \E k \in 1..upto :
       /\ text[k] = ch
       /\ ln = LineOf(text, k)
       /\ cl = ColOf(text, k)

ExactDiagnostic(d) ==
    CASE d.kind = "unexpected" ->
           ExactPosition(d.ch, d.line, d.col, idx)
      [] d.kind = "closing expected to match" ->
           /\ ExactPosition(d.ch, d.line, d.col, idx)
           /\ ExactPosition(d.last_open, d.open_line, d.open_col, idx)
      [] d.kind = "was never closed" ->
           ExactPosition(d.ch, d.line, d.col, idx)
      [] OTHER -> TRUE

C18_ExactPositions ==
    pc \in {"scan", "done"} =>
       /\ line = LineOf(text, idx + 1)
       /\ col = ColOf(text, idx + 1) - 1
       /\ \A k \in 1..Len(stack) :
             ExactPosition(stack[k].char, stack[k].line, stack[k].col, idx)
       /\ \A k \in 1..Len(errors) : ExactDiagnostic(errors[k])

\* an opener on the second line, after a string that holds the newline, is
\* reported unclosed at line 2, column 2
C18_Witness ==
    /\ pc = "done"
    /\ Len(text) >= 4
    /\ text[1] = "\""
    /\ text[2] = "\n"
    /\ text[3] = "\""
    /\ errors # <<>>
    /\ errors[Len(errors)].kind = "was never closed"
    /\ errors[Len(errors)].line = 2
    /\ errors[Len(errors)].col = 2

(***************************************************************************)
(* C19: for every finite text the scan terminates.  Each iteration of the  *)
(* loop advances the index by exactly one character whatever branch is     *)
(* taken, a diagnostic neither aborting nor rewinding the scan; the form   *)
(* namer, called on an opening parenthesis at depth zero, returns its      *)
(* label and leaves the index to advance by one as in any other branch;    *)
(* the unclosed-delimiter report appears only once the last character has  *)
(* been consumed.  Termination is stated by a variant: a scan in progress  *)
(* can always take a step, and each step lowers by one a natural number    *)
(* that starts at the length of the text plus one.                         *)
(***************************************************************************)
NamerCalled == InCode /\ Ch = "(" /\ stack = <<>>

IterationAdvances ==
    pc = "scan" =>
       IF idx < Len(text)
       THEN /\ idx' = idx + 1
            /\ pc' = "scan"
            /\ text' = text
            /\ Len(errors') >= Len(errors)
            /\ NamerCalled =>
                  current_form' = describe_top_level_form(text, idx', line)
       ELSE /\ pc' = "done"
            /\ idx' = idx

UnclosedOnlyAtEnd ==
    (\E k \in 1..Len(errors) : errors[k].kind = "was never closed") =>
       pc = "done" /\ idx = Len(text)

\* The characters and the return still ahead of the scan: a natural number
\* that every step of a scan in progress lowers by one.
Remaining == (Len(text) - idx) + (IF pc = "scan" THEN 1 ELSE 0)

\* What holds of a state a step of the scan leads to: the variant is a
\* natural number, a scan in progress can take a step, and no opener is
\* reported unclosed before the end.
ScanProgresses ==
    /\ Remaining >= 0
    /\ pc = "scan" => ENABLED Next
    /\ UnclosedOnlyAtEnd

C19_ScanTerminates ==
    [][/\ IterationAdvances
       /\ pc = "scan" => Remaining' = Remaining - 1
       /\ ScanProgresses']_vars

\* a scan that named a form, reported a mismatch against it, went on, and
\* reported an opener unclosed after the last character
C19_Witness ==
    /\ pc = "done"
    /\ idx = Len(text)
    /\ Len(errors) >= 2
    /\ errors[1].kind = "closing expected to match"
    /\ errors[1].form # "top-level"
    /\ errors[Len(errors)].kind = "was never closed"

(***************************************************************************)
(* C20: in every state reached while scanning, all entries on the          *)
(* delimiter stack carry the same form label, which is the current form    *)
(* label; and whenever the stack is empty the current form label is the    *)
(* sentinel "top-level", so that a bracket or brace opened at depth zero   *)
(* is labelled "top-level".                                                *)
(***************************************************************************)
C20_OneLabel ==
    pc \in {"scan", "done"} =>
       /\ \A k \in 1..Len(stack) : stack[k].form = current_form
       /\ stack = <<>> => current_form = "top-level"
       /\ (stack # <<>> /\ stack[1].char # "(") => current_form = "top-level"

\* a bracket opened at depth zero after a named form was opened and closed
C20_Witness ==
    /\ pc = "scan"
    /\ idx >= 3
    /\ text[1] = "("
    /\ describe_top_level_form(text, 1, 1) # "top-level"
    /\ Len(stack) = 1
    /\ stack[1].char = "["
    /\ text[idx] = "["
    /\ stack[1].form = "top-level"
    /\ current_form = "top-level"

====
